---- MODULE Spec2Model ----
(***************************************************************************)
(* A model of class TimeTracker (TimeTracker.h): a timeout duration and a  *)
(* "now" checkpoint, both timeval, with the two timeout checks, the        *)
(* setters, the accessors and the five constructors.                       *)
(*                                                                         *)
(* A timeval is a record [tv_sec, tv_usec].  tv_sec and tv_usec are 64-bit *)
(* in the build (time_t, suseconds_t on LP64); the model keeps them far    *)
(* below that width, so they are plain integers here.  A flattened         *)
(* microsecond count (time_t or uint32_t) does reach 2^32, which the model *)
(* checker's integers cannot hold, so a count is a big-endian sequence of  *)
(* bytes of the type's width and the arithmetic on it is done byte by byte.*)
(***************************************************************************)
EXTENDS Integers, Sequences, FiniteSets

VARIABLES
    timeout,    \* TimeTracker::timeout
    now,        \* TimeTracker::now
    op,         \* the operation that ran last
    args,       \* its arguments
    ret,        \* its return value ("void" when it has none)
    pre,        \* [timeout, now] as they were when it was called
    anchor,     \* history: <<c>>, c the latest of the values a timeout check moved
                \* now to since the last set_now; <<>> when there is none
    set_us,     \* history: <<n>>, n the count the latest set_timeout was given;
                \* <<>> while the timeout is the constructor's
    window,     \* history: the run of is_timed_out_and_update_if_timed_out calls
    poll,       \* history: the run of is_timed_out calls with samples in order
    repeat      \* history: the last call was Again, the call before it once more

vars == <<timeout, now, op, args, ret, pre, anchor, set_us, window, poll, repeat>>

(***************************************************************************)
(* Constants of the program and bounds of the model.                       *)
(***************************************************************************)
MICROSECONDS == 1000000

\* system_clock::period of the build: time_point counts nanoseconds.
NANOSECONDS == 10^9

\* Largest tv_sec of the samples, checkpoints and timeouts that are drawn.
MaxSec == 2

\* The calls of one run that are counted.
MaxRun == 2

Byte == 2^8
Int64Width == 64 \div 8
UInt32Width == 32 \div 8

Secs == 0 .. MaxSec
USecs == {0, MICROSECONDS \div 2, MICROSECONDS - 1}

timeval(s, u) == [tv_sec |-> s, tv_usec |-> u]

Times == {timeval(s, u) : s \in Secs, u \in USecs}

Zero == timeval(0, 0)

(***************************************************************************)
(* Fixed-width unsigned arithmetic on byte sequences (most significant     *)
(* byte first).                                                            *)
(***************************************************************************)
RECURSIVE ToBytes(_, _)
\* The w low bytes of the non-negative integer k.
ToBytes(k, w) ==
    IF w = 0 THEN <<>> ELSE Append(ToBytes(k \div Byte, w - 1), k % Byte)

RECURSIVE MulAdd(_, _, _, _)
\* The w low bytes of a * b + c, for non-negative integers a, b, c:
\* schoolbook multiplication of a by the bytes of b, lowest first, c the carry in.
MulAdd(a, b, c, w) ==
    IF w = 0 THEN <<>>
    ELSE LET t == a * (b % Byte) + c
         IN  Append(MulAdd(a, b \div Byte, t \div Byte, w - 1), t % Byte)

RECURSIVE DivMod(_, _, _, _)
\* Long division of the byte sequence n by the integer d, q and r the
\* quotient and remainder of the bytes already consumed.
DivMod(n, d, q, r) ==
    IF n = <<>> THEN [quot |-> q, rem |-> r]
    ELSE LET cur == r * Byte + Head(n)
         IN  DivMod(Tail(n), d, q * Byte + cur \div d, cur % d)

\* Integer conversion to a narrower unsigned type: the w low bytes.
Truncate(n, w) == SubSeq(n, Len(n) - w + 1, Len(n))

\* Integer conversion of an unsigned value to a wider type.
ZeroExtend(n, w) == [i \in 1 .. (w - Len(n)) |-> 0] \o n

(***************************************************************************)
(* The private helpers.                                                    *)
(***************************************************************************)
\* compare_timevals without its two tv_usec comparisons.
compare_timevals_seconds_only(left, right) ==
    IF left.tv_sec < right.tv_sec THEN -1
    ELSE IF left.tv_sec > right.tv_sec THEN 1
    ELSE 0

\* compare_timevals with the results of its tv_usec comparisons exchanged.
compare_timevals_usec_exchanged(left, right) ==
    IF left.tv_sec < right.tv_sec THEN -1
    ELSE IF left.tv_sec > right.tv_sec THEN 1
    ELSE IF left.tv_usec < right.tv_usec THEN 1
    ELSE IF left.tv_usec > right.tv_usec THEN -1
    ELSE 0

\* compare_timevals deciding by tv_usec before tv_sec.
compare_timevals_usec_first(left, right) ==
    IF left.tv_usec < right.tv_usec THEN -1
    ELSE IF left.tv_usec > right.tv_usec THEN 1
    ELSE IF left.tv_sec < right.tv_sec THEN -1
    ELSE IF left.tv_sec > right.tv_sec THEN 1
    ELSE 0

compare_timevals(left, right) ==
    IF left.tv_sec < right.tv_sec THEN -1
    ELSE IF left.tv_sec > right.tv_sec THEN 1
    ELSE IF left.tv_usec < right.tv_usec THEN -1
    ELSE IF left.tv_usec > right.tv_usec THEN 1
    ELSE 0

\* add_timevals without the carry into tv_sec.
add_timevals_no_carry(left, right) ==
    timeval(left.tv_sec + right.tv_sec, left.tv_usec + right.tv_usec)

\* add_timevals adding right.tv_sec, for right.tv_usec, into tv_usec.
add_timevals_usec_from_sec(left, right) ==
    LET sec  == left.tv_sec + right.tv_sec
        usec == left.tv_usec + right.tv_sec
    IN  IF usec >= MICROSECONDS
        THEN timeval(sec + 1, usec - MICROSECONDS)
        ELSE timeval(sec, usec)

add_timevals(left, right) ==
    LET sec  == left.tv_sec + right.tv_sec
        usec == left.tv_usec + right.tv_usec
    IN  IF usec >= MICROSECONDS
        THEN timeval(sec + 1, usec - MICROSECONDS)
        ELSE timeval(sec, usec)

\* std::chrono::system_clock::to_time_t: the whole seconds of a time_point,
\* a count of nanoseconds since the epoch (duration_cast truncates).
to_time_t(tp) == tp \div NANOSECONDS

\* { timeout_us / MICROSECONDS, timeout_us % MICROSECONDS }
split_us(timeout_us) ==
    LET d == DivMod(timeout_us, MICROSECONDS, 0, 0)
    IN  timeval(d.quot, d.rem)

(***************************************************************************)
(* The public methods, as functions of the object self = [timeout, now]    *)
(* and the arguments, giving the object afterwards and the return value.   *)
(***************************************************************************)
Void == "void"

Object(t, n) == [timeout |-> t, now |-> n]

Result(self, r) == [self |-> self, ret |-> r]

TimeTracker_default == Object(Zero, Zero)

TimeTracker_timeval(tmo) == Object(tmo, Zero)

\* timeout_us is a uint32_t.
TimeTracker_us(timeout_us) == Object(split_us(timeout_us), Zero)

\* The (time_t, timeval) constructor leaving now at {0, 0} as the others do.
TimeTracker_us_now_zeroed(timeout_us, current_time) ==
    Object(split_us(timeout_us), Zero)

\* timeout_us is a time_t.
TimeTracker_us_now(timeout_us, current_time) ==
    Object(split_us(timeout_us), current_time)

TimeTracker_us_tp(timeout_us, tp) ==
    Object(split_us(timeout_us), timeval(to_time_t(tp), 0))

set_now(self, current_time) ==
    Result([self EXCEPT !.now = current_time], Void)

set_now_tp(self, tp) ==
    Result([self EXCEPT !.now = timeval(to_time_t(tp), 0)], Void)

get_now(self) == Result(self, self.now)

set_timeout(self, timeout_us) ==
    Result([self EXCEPT !.timeout = split_us(timeout_us)], Void)

get_timeout(self) == Result(self, self.timeout)

\* get_timeout_us without the tv_usec term.
get_timeout_us_seconds_only(self) ==
    Result(self,
           Truncate(MulAdd(self.timeout.tv_sec, MICROSECONDS, 0, Int64Width),
                    UInt32Width))

\* The sum is a long; the return type uint32_t keeps its low 32 bits.
get_timeout_us(self) ==
    Result(self,
           Truncate(MulAdd(self.timeout.tv_sec, MICROSECONDS,
                           self.timeout.tv_usec, Int64Width),
                    UInt32Width))

\* is_timed_out without the guard against a sample before now.
is_timed_out_unguarded(self, current_time, tmo) ==
    LET deadline == add_timevals(self.now, tmo)
        after    == [self EXCEPT !.now = current_time]
    IN  Result(after, compare_timevals(after.now, deadline) > 0)

\* is_timed_out reporting a timeout on the deadline itself (>= for >).
is_timed_out_at_deadline(self, current_time, tmo) ==
    IF compare_timevals(self.now, current_time) > 0
    THEN Result(self, FALSE)
    ELSE LET deadline == add_timevals(self.now, tmo)
             after    == [self EXCEPT !.now = current_time]
         IN  Result(after, compare_timevals(after.now, deadline) >= 0)

\* is_timed_out whose parameter timeout, which hides the member of that
\* name, is stored into the member.
is_timed_out_storing_override(self, current_time, tmo) ==
    IF compare_timevals(self.now, current_time) > 0
    THEN Result(self, FALSE)
    ELSE LET deadline == add_timevals(self.now, tmo)
             after    == [self EXCEPT !.now = current_time, !.timeout = tmo]
         IN  Result(after, compare_timevals(after.now, deadline) > 0)

\* is_timed_out advancing now only when it reports a timeout, as
\* is_timed_out_and_update_if_timed_out does.
is_timed_out_advancing_on_timeout(self, current_time, tmo) ==
    IF compare_timevals(self.now, current_time) > 0
    THEN Result(self, FALSE)
    ELSE LET deadline == add_timevals(self.now, tmo)
             result   == compare_timevals(current_time, deadline) > 0
         IN  IF result
             THEN Result([self EXCEPT !.now = current_time], result)
             ELSE Result(self, result)

is_timed_out(self, current_time, tmo) ==
    IF compare_timevals(self.now, current_time) > 0
    THEN Result(self, FALSE)
    ELSE LET deadline == add_timevals(self.now, tmo)
             after    == [self EXCEPT !.now = current_time]
         IN  Result(after, compare_timevals(after.now, deadline) > 0)

is_timed_out_default(self, current_time) ==
    is_timed_out(self, current_time, self.timeout)

\* is_timed_out_and_update_if_timed_out assigning now whatever the result.
is_timed_out_and_update_always(self, current_time) ==
    IF compare_timevals(self.now, current_time) > 0
    THEN Result(self, FALSE)
    ELSE LET deadline == add_timevals(self.now, self.timeout)
             result   == compare_timevals(current_time, deadline) > 0
         IN  Result([self EXCEPT !.now = current_time], result)

\* is_timed_out_and_update_if_timed_out reporting a timeout on the deadline
\* itself (>= for >).
is_timed_out_and_update_at_deadline(self, current_time) ==
    IF compare_timevals(self.now, current_time) > 0
    THEN Result(self, FALSE)
    ELSE LET deadline == add_timevals(self.now, self.timeout)
             result   == compare_timevals(current_time, deadline) >= 0
         IN  IF result
             THEN Result([self EXCEPT !.now = current_time], result)
             ELSE Result(self, result)

is_timed_out_and_update_if_timed_out(self, current_time) ==
    IF compare_timevals(self.now, current_time) > 0
    THEN Result(self, FALSE)
    ELSE LET deadline == add_timevals(self.now, self.timeout)
             result   == compare_timevals(current_time, deadline) > 0
         IN  IF result
             THEN Result([self EXCEPT !.now = current_time], result)
             ELSE Result(self, result)

\* The time_point overload keeping the microseconds of the time_point.
is_timed_out_and_update_with_subsecond(self, current_time_input) ==
    is_timed_out_and_update_if_timed_out(
        self, timeval(to_time_t(current_time_input),
                      (current_time_input % NANOSECONDS)
                          \div (NANOSECONDS \div MICROSECONDS)))

is_timed_out_and_update_if_timed_out_tp(self, current_time_input) ==
    is_timed_out_and_update_if_timed_out(
        self, timeval(to_time_t(current_time_input), 0))

(***************************************************************************)
(* The inputs the callers draw.                                            *)
(***************************************************************************)
\* time_t and uint32_t microsecond counts of the drawn durations.
Counts == {ToBytes(t.tv_sec * MICROSECONDS + t.tv_usec, Int64Width) : t \in Times}

Counts32 == {Truncate(n, UInt32Width) : n \in Counts}

\* time_points: nanoseconds since the epoch, on and off the whole second.
WallClocks ==
    {0, 1, NANOSECONDS - 1, NANOSECONDS, NANOSECONDS + NANOSECONDS \div 2,
     2 * NANOSECONDS + 1000}

\* The timeouts passed to is_timed_out in place of the configured one.
Overrides == {Zero, timeval(0, MICROSECONDS \div 2), timeval(1, MICROSECONDS - 1)}

\* Durations and counts around 2^32 microseconds, where uint32_t wraps:
\* 2^32 = 4294 * 10^6 + 967296.
WideTimes == {timeval(s, u) : s \in {0, 1, 4294, 4295},
                              u \in {0, 967295, 967296, MICROSECONDS - 1}}

WideCounts32 ==
    {ToBytes(k, UInt32Width) : k \in {0, 1, 999999, 1000000, 1600000, 2147483647}}
        \cup {<<128, 0, 0, 0>>, <<255, 255, 255, 255>>}

WideCounts ==
    {ZeroExtend(n, Int64Width) : n \in WideCounts32}
        \cup {<<0, 0, 0, 1, 0, 0, 0, 0>>, <<0, 0, 0, 1, 0, 0, 0, 1>>,
              <<0, 0, 0, 1, 42, 5, 242, 0>>, <<0, 0, 0, 2, 0, 15, 66, 64>>}

(***************************************************************************)
(* The state machine: one tracker, constructed by Init, then called.       *)
(***************************************************************************)
Self == Object(timeout, now)

Checks == {"is_timed_out", "is_timed_out_default",
           "is_timed_out_and_update_if_timed_out",
           "is_timed_out_and_update_if_timed_out_tp"}

Setters == {"set_now", "set_now_tp"}

Constructors == {"TimeTracker_default", "TimeTracker_timeval", "TimeTracker_us",
                 "TimeTracker_us_now", "TimeTracker_us_tp"}

\* The microseconds of a drawn time value, as a number.
Flat(t) == t.tv_sec * MICROSECONDS + t.tv_usec

Latest(a, c) == IF a # <<>> /\ Flat(a[1]) >= Flat(c) THEN a ELSE <<c>>

Min(x, y) == IF x <= y THEN x ELSE y

\* No run yet: the tracker's checkpoint is c.
NoWindow(c) == [start |-> c, calls |-> 0, before |-> 0]

\* window after is_timed_out_and_update_if_timed_out(sample) with
\* configured timeout t.  start is the checkpoint the run began with.  While
\* the samples stay at or before start + t the run goes on and calls counts
\* it; a sample past start + t ends it, before keeps its length, and the
\* next run begins with that sample.
WindowAfter(w, t, sample) ==
    IF Flat(sample) <= Flat(w.start) + Flat(t)
    THEN [start |-> w.start, calls |-> Min(w.calls + 1, MaxRun), before |-> 0]
    ELSE [start |-> sample, calls |-> 0, before |-> w.calls]

\* No run yet: the tracker's checkpoint is c.
NoPoll(c) == [first |-> c, prev |-> c, inrun |-> FALSE, fired |-> FALSE]

\* poll after is_timed_out(sample) with configured timeout t, sample not
\* before the sample of the call before (prev).  fired: the sample is more
\* than t after prev.  first is the checkpoint a run of calls that did not
\* fire began with.
PollAfter(q, t, sample) ==
    IF Flat(sample) - Flat(q.prev) > Flat(t)
    THEN [first |-> sample, prev |-> sample, inrun |-> TRUE, fired |-> TRUE]
    ELSE [first |-> q.first, prev |-> sample, inrun |-> TRUE, fired |-> FALSE]

\* The tracker has just been constructed as obj by constructor name.
Constructed(name, a, obj) ==
    /\ timeout = obj.timeout
    /\ now = obj.now
    /\ op = name
    /\ args = a
    /\ ret = Void
    /\ pre = obj
    /\ anchor = <<>>
    /\ set_us = <<>>
    /\ window = NoWindow(obj.now)
    /\ poll = NoPoll(obj.now)
    /\ repeat = FALSE

\* Method name is called with arguments a; r is what it gives on Self;
\* again: it is the call before, made once more.
CalledAs(name, a, r, again) ==
    /\ timeout' = r.self.timeout
    /\ now' = r.self.now
    /\ op' = name
    /\ args' = a
    /\ ret' = r.ret
    /\ pre' = Self
    /\ anchor' = IF name \in Checks /\ r.self.now # now
                 THEN Latest(anchor, r.self.now)
                 ELSE IF name \in Setters THEN <<>>
                 ELSE anchor
    /\ set_us' = IF name = "set_timeout" THEN <<a[1]>> ELSE set_us
    /\ window' = IF name = "is_timed_out_and_update_if_timed_out"
                 THEN WindowAfter(window, timeout, a[1])
                 ELSE NoWindow(r.self.now)
    /\ poll' = IF name = "is_timed_out_default" /\ Flat(a[1]) >= Flat(poll.prev)
               THEN PollAfter(poll, timeout, a[1])
               ELSE NoPoll(r.self.now)
    /\ repeat' = again

\* Method name is called with arguments a; r is what it gives on Self.
Called(name, a, r) == CalledAs(name, a, r, FALSE)

Construct(durations, counts32, counts) ==
    \/ Constructed("TimeTracker_default", <<>>, TimeTracker_default)
    \/ \E d \in durations :
         Constructed("TimeTracker_timeval", <<d>>, TimeTracker_timeval(d))
    \/ \E n \in counts32 :
         Constructed("TimeTracker_us", <<n>>, TimeTracker_us(n))
    \/ \E n \in counts, t \in Times :
         Constructed("TimeTracker_us_now", <<n, t>>, TimeTracker_us_now(n, t))
    \/ \E n \in counts, w \in WallClocks :
         Constructed("TimeTracker_us_tp", <<n, w>>, TimeTracker_us_tp(n, w))

Init == Construct(Times, Counts32, Counts)

SetNow == \E t \in Times : Called("set_now", <<t>>, set_now(Self, t))

SetNowTp == \E w \in WallClocks : Called("set_now_tp", <<w>>, set_now_tp(Self, w))

GetNow == Called("get_now", <<>>, get_now(Self))

SetTimeout == \E n \in Counts : Called("set_timeout", <<n>>, set_timeout(Self, n))

GetTimeout == Called("get_timeout", <<>>, get_timeout(Self))

GetTimeoutUs == Called("get_timeout_us", <<>>, get_timeout_us(Self))

IsTimedOut ==
    \E t \in Times, d \in Overrides :
        Called("is_timed_out", <<t, d>>, is_timed_out(Self, t, d))

IsTimedOutDefault ==
    \E t \in Times :
        Called("is_timed_out_default", <<t>>, is_timed_out_default(Self, t))

IsTimedOutAndUpdate ==
    \E t \in Times :
        Called("is_timed_out_and_update_if_timed_out", <<t>>,
               is_timed_out_and_update_if_timed_out(Self, t))

IsTimedOutAndUpdateTp ==
    \E w \in WallClocks :
        Called("is_timed_out_and_update_if_timed_out_tp", <<w>>,
               is_timed_out_and_update_if_timed_out_tp(Self, w))

Next ==
    \/ SetNow
    \/ SetNowTp
    \/ GetNow
    \/ SetTimeout
    \/ GetTimeout
    \/ GetTimeoutUs
    \/ IsTimedOut
    \/ IsTimedOutDefault
    \/ IsTimedOutAndUpdate
    \/ IsTimedOutAndUpdateTp

Spec == Init /\ [][Next]_vars

(***************************************************************************)
(* The timeout alone, configured over the whole range of uint32_t and      *)
(* beyond, and read back.                                                  *)
(***************************************************************************)
InitUs == Construct(WideTimes, WideCounts32, WideCounts)

SetTimeoutWide ==
    \E n \in WideCounts : Called("set_timeout", <<n>>, set_timeout(Self, n))

NextUs ==
    \/ SetTimeoutWide
    \/ GetTimeout
    \/ GetTimeoutUs

SpecUs == InitUs /\ [][NextUs]_vars

(***************************************************************************)
(* The timeout checks and set_timeout alone: a polling loop that never     *)
(* calls set_now.                                                          *)
(***************************************************************************)
NextChecks ==
    \/ SetTimeout
    \/ IsTimedOut
    \/ IsTimedOutDefault
    \/ IsTimedOutAndUpdate
    \/ IsTimedOutAndUpdateTp

SpecChecks == Init /\ [][NextChecks]_vars

(***************************************************************************)
(* The timeout checks, each free to be called a second time with the       *)
(* arguments of the first.                                                 *)
(***************************************************************************)
\* What timeout check name gives on Self with arguments a.
Check(name, a) ==
    CASE name = "is_timed_out" -> is_timed_out(Self, a[1], a[2])
      [] name = "is_timed_out_default" -> is_timed_out_default(Self, a[1])
      [] name = "is_timed_out_and_update_if_timed_out" ->
             is_timed_out_and_update_if_timed_out(Self, a[1])
      [] name = "is_timed_out_and_update_if_timed_out_tp" ->
             is_timed_out_and_update_if_timed_out_tp(Self, a[1])

Again ==
    /\ op \in Checks
    /\ CalledAs(op, args, Check(op, args), TRUE)

NextAgain ==
    \/ IsTimedOut
    \/ IsTimedOutDefault
    \/ IsTimedOutAndUpdate
    \/ IsTimedOutAndUpdateTp
    \/ Again

SpecAgain == Init /\ [][NextAgain]_vars

(***************************************************************************)
(* The private helpers alone, applied to drawn pairs of time values.       *)
(***************************************************************************)
InitPure ==
    /\ timeout = Zero
    /\ now = Zero
    /\ op = "draw"
    /\ args \in Times \X Times
    /\ ret = Void
    /\ pre = Object(Zero, Zero)
    /\ anchor = <<>>
    /\ set_us = <<>>
    /\ window = NoWindow(Zero)
    /\ poll = NoPoll(Zero)
    /\ repeat = FALSE

Draw ==
    /\ op' = "draw"
    /\ args' \in Times \X Times
    /\ ret' = Void
    /\ UNCHANGED <<timeout, now, pre, anchor, set_us, window, poll, repeat>>

AddTimevals ==
    /\ op' = "add_timevals"
    /\ ret' = add_timevals(args[1], args[2])
    /\ UNCHANGED <<timeout, now, args, pre, anchor, set_us, window, poll, repeat>>

CompareTimevals ==
    /\ op' = "compare_timevals"
    /\ ret' = compare_timevals(args[1], args[2])
    /\ UNCHANGED <<timeout, now, args, pre, anchor, set_us, window, poll, repeat>>

NextPure ==
    \/ Draw
    \/ AddTimevals
    \/ CompareTimevals

SpecPure == InitPure /\ [][NextPure]_vars

(***************************************************************************)
(* The properties.  Time values are compared by their flattened            *)
(* microsecond count, Flat, and not by compare_timevals; deadlines are     *)
(* sums of counts, and not add_timevals.                                   *)
(***************************************************************************)
AlwaysAdvance == {"is_timed_out", "is_timed_out_default"}

\* C1: is_timed_out with a sample strictly earlier than the checkpoint
\* returns false and leaves the checkpoint as it was; with any other sample
\* the checkpoint is the sample afterwards, whatever is returned.
C1_StaleIgnoredElseAdvanced ==
    op \in AlwaysAdvance =>
        IF Flat(args[1]) < Flat(pre.now)
        THEN ret = FALSE /\ now = pre.now
        ELSE now = args[1]

\* A stale sample within the same second as the checkpoint was refused.
C1_Witness ==
    /\ op \in AlwaysAdvance
    /\ Flat(args[1]) < Flat(pre.now)
    /\ args[1].tv_sec = pre.now.tv_sec
    /\ ret = FALSE
    /\ now = pre.now

\* The timeout is_timed_out checked against: the override when one is passed.
EffectiveTimeout == IF op = "is_timed_out" THEN args[2] ELSE pre.timeout

\* C2: is_timed_out with a sample not earlier than the checkpoint returns
\* true exactly when the sample is strictly greater than the checkpoint
\* before the call plus the effective timeout.
C2_TrueIffPastDeadline ==
    (op \in AlwaysAdvance /\ Flat(args[1]) >= Flat(pre.now)) =>
        (ret = (Flat(args[1]) > Flat(pre.now) + Flat(EffectiveTimeout)))

\* A sample exactly on a deadline whose microseconds carried returned false.
C2_Witness ==
    /\ op = "is_timed_out"
    /\ Flat(args[1]) = Flat(pre.now) + Flat(args[2])
    /\ pre.now.tv_usec + args[2].tv_usec >= MICROSECONDS
    /\ ret = FALSE
    /\ now = args[1]

UpdateIfTimedOut == "is_timed_out_and_update_if_timed_out"

\* C3: is_timed_out_and_update_if_timed_out moves the checkpoint to the
\* sample exactly when it returns true; when it returns false the checkpoint
\* is the one before the call.
C3_UpdatedIffTimedOut ==
    op = UpdateIfTimedOut =>
        /\ ret = (now = args[1] /\ now # pre.now)
        /\ ret = FALSE => now = pre.now

\* The call returned false for a sample later than the checkpoint, which stayed.
C3_Witness ==
    /\ op = UpdateIfTimedOut
    /\ Flat(args[1]) > Flat(pre.now)
    /\ ret = FALSE
    /\ now = pre.now

\* C4: is_timed_out_and_update_if_timed_out returns false when the
\* checkpoint is strictly later than the sample, and otherwise returns true
\* exactly when the sample is strictly greater than the checkpoint before
\* the call plus the configured timeout.
C4_TrueIffSamplePastDeadline ==
    op = UpdateIfTimedOut =>
        IF Flat(pre.now) > Flat(args[1])
        THEN ret = FALSE
        ELSE ret = (Flat(args[1]) > Flat(pre.now) + Flat(pre.timeout))

\* A sample exactly on a deadline whose microseconds carried returned false.
C4_Witness ==
    /\ op = UpdateIfTimedOut
    /\ Flat(args[1]) = Flat(pre.now) + Flat(pre.timeout)
    /\ pre.now.tv_usec + pre.timeout.tv_usec >= MICROSECONDS
    /\ ret = FALSE

\* C5 as claimed: no public operation leaves the checkpoint strictly earlier
\* than it was before that operation.
C5_NoOperationMovesBack == Flat(pre.now) <= Flat(now)

\* C5, amended: no operation other than set_now (either overload) leaves the
\* checkpoint strictly earlier than it was before that operation.
C5_OnlySetNowMovesBack == op \notin Setters => Flat(pre.now) <= Flat(now)

\* A timeout check moved the checkpoint strictly forward.
C5_Witness ==
    /\ op \in Checks
    /\ Flat(pre.now) < Flat(now)

\* The sample of the timeout check that ran last, in whole microseconds (a
\* time_point's nanoseconds rounded down).
SampleMicros ==
    IF op = "is_timed_out_and_update_if_timed_out_tp"
    THEN args[1] \div (NANOSECONDS \div MICROSECONDS)
    ELSE Flat(args[1])

\* C6: while set_now has not been called since a timeout check moved the
\* checkpoint to c, every timeout check with a sample strictly earlier than
\* c returns false and leaves the checkpoint unchanged.
C6_StaleSampleIgnoredForGood ==
    (op \in Checks /\ anchor # <<>> /\ SampleMicros < Flat(anchor[1])) =>
        (ret = FALSE /\ now = pre.now)

\* A check refused a sample earlier than a value an earlier check had moved
\* the checkpoint to, on a tracker whose timeout set_timeout has configured.
C6_Witness ==
    /\ op \in Checks
    /\ anchor # <<>>
    /\ SampleMicros < Flat(anchor[1])
    /\ set_us # <<>>
    /\ ret = FALSE
    /\ now = anchor[1]

\* C7: no timeout check changes the configured timeout.
C7_ChecksKeepTimeout ==
    op \in Checks => timeout = pre.timeout /\ get_timeout(Self).ret = pre.timeout

\* is_timed_out ran with an override other than the configured timeout and
\* moved the checkpoint.
C7_Witness ==
    /\ op = "is_timed_out"
    /\ args[2] # pre.timeout
    /\ now # pre.now
    /\ timeout = pre.timeout

\* A time_t count that fits the uint32_t get_timeout_us returns.
Representable(n) ==
    SubSeq(n, 1, Int64Width - UInt32Width) = [i \in 1 .. (Int64Width - UInt32Width) |-> 0]

\* C8: get_timeout_us() after set_timeout(n) returns n, for every count n
\* that fits its return type.
C8_TimeoutUsRoundTrip ==
    (op = "get_timeout_us" /\ set_us # <<>> /\ Representable(set_us[1])) =>
        ZeroExtend(ret, Int64Width) = set_us[1]

\* The largest uint32_t count, 2^32 - 1, was set and read back.
C8_Witness ==
    /\ op = "get_timeout_us"
    /\ set_us = << <<0, 0, 0, 0, 255, 255, 255, 255>> >>
    /\ ret = <<255, 255, 255, 255>>

\* C9 as claimed: for every configured timeout (s, m) with 0 <= m < 10^6,
\* get_timeout_us() returns the count s * 10^6 + m: the count whose quotient
\* by 10^6 is s and whose remainder is m.
C9_TimeoutUsIsFlattenedCount ==
    (op = "get_timeout_us" /\ timeout.tv_usec \in 0 .. (MICROSECONDS - 1)) =>
        DivMod(ret, MICROSECONDS, 0, 0) =
            [quot |-> timeout.tv_sec, rem |-> timeout.tv_usec]

RECURSIVE WholeSeconds(_)
\* The whole seconds in a count of nanoseconds.
WholeSeconds(w) == IF w < NANOSECONDS THEN 0 ELSE 1 + WholeSeconds(w - NANOSECONDS)

\* C10: the time_point overloads act as the timeval ones do on (whole
\* seconds of the time_point, 0): is_timed_out_and_update_if_timed_out
\* returns the same and leaves the same tracker, and set_now leaves the
\* checkpoint at (whole seconds, 0).
C10_WallClockTruncated ==
    /\ op = "is_timed_out_and_update_if_timed_out_tp" =>
         LET r == is_timed_out_and_update_if_timed_out(
                      pre, timeval(WholeSeconds(args[1]), 0))
         IN  ret = r.ret /\ Self = r.self
    /\ op = "set_now_tp" =>
         Self = [pre EXCEPT !.now = timeval(WholeSeconds(args[1]), 0)]

\* A time_point off the whole second timed out and became the checkpoint,
\* without its sub-second part.
C10_Witness ==
    /\ op = "is_timed_out_and_update_if_timed_out_tp"
    /\ args[1] % NANOSECONDS # 0
    /\ ret = TRUE
    /\ now = timeval(WholeSeconds(args[1]), 0)
    /\ now # pre.now

\* The time value t is the microsecond count n (a byte sequence): normalized,
\* and t.tv_sec * 10^6 + t.tv_usec = n.
IsCount(t, n) ==
    /\ t.tv_usec \in 0 .. (MICROSECONDS - 1)
    /\ MulAdd(t.tv_sec, MICROSECONDS, t.tv_usec, Int64Width) = ZeroExtend(n, Int64Width)

\* C11: a default-constructed tracker has timeout (0,0) and checkpoint
\* (0,0); one constructed from a duration only (a timeval or a microsecond
\* count) has that duration as timeout and checkpoint (0,0); one constructed
\* from a count and a timeval checkpoint has both as given.
C11_ConstructedState ==
    /\ op = "TimeTracker_default" => timeout = Zero /\ now = Zero
    /\ op = "TimeTracker_timeval" => timeout = args[1] /\ now = Zero
    /\ op = "TimeTracker_us" => IsCount(timeout, args[1]) /\ now = Zero
    /\ op = "TimeTracker_us_now" => IsCount(timeout, args[1]) /\ now = args[2]

\* A tracker was constructed with a timeout and a checkpoint, neither zero.
C11_Witness ==
    /\ op = "TimeTracker_us_now"
    /\ now = args[2]
    /\ now # Zero
    /\ timeout # Zero
    /\ timeout.tv_usec # 0

\* C12: in a sequence of timeout checks and set_timeout calls only, every
\* call leaves the checkpoint equal to or later than it was before the call.
C12_ChecksNeverMoveBack == [][Flat(now) <= Flat(now')]_vars

\* After a set_timeout, a check moved the checkpoint strictly forward while
\* returning false.
C12_Witness ==
    /\ op \in Checks
    /\ set_us # <<>>
    /\ ret = FALSE
    /\ Flat(pre.now) < Flat(now)

\* C14: add_timevals of two normalized time values is normalized and its
\* microsecond count is the sum of their counts.
C14_AddExactAndNormalized ==
    op = "add_timevals" =>
        /\ ret.tv_usec \in 0 .. (MICROSECONDS - 1)
        /\ Flat(ret) = Flat(args[1]) + Flat(args[2])

\* Two tv_usec fields summing to exactly 10^6 were carried into tv_sec.
C14_Witness ==
    /\ op = "add_timevals"
    /\ args[1].tv_usec + args[2].tv_usec = MICROSECONDS
    /\ ret = timeval(args[1].tv_sec + args[2].tv_sec + 1, 0)

\* C15: compare_timevals(a, b) is -1, 0 or 1 exactly when the count of a is
\* less than, equal to or greater than the count of b; exchanging the
\* arguments negates it, and greater-than is transitive.
C15_CompareIsOrderOfCounts ==
    op = "compare_timevals" =>
        LET a == args[1]
            b == args[2]
        IN  /\ ret \in {-1, 0, 1}
            /\ (ret = -1) = (Flat(a) < Flat(b))
            /\ (ret = 0) = (Flat(a) = Flat(b))
            /\ (ret = 1) = (Flat(a) > Flat(b))
            /\ compare_timevals(b, a) = 0 - ret
            /\ \A c \in Times :
                 (ret = 1 /\ compare_timevals(b, c) = 1) => compare_timevals(a, c) = 1

\* The greater tv_sec decided against the greater tv_usec.
C15_Witness ==
    /\ op = "compare_timevals"
    /\ args[1].tv_sec > args[2].tv_sec
    /\ args[1].tv_usec < args[2].tv_usec
    /\ ret = 1

\* C16: on the same tracker and sample, is_timed_out(current_time) and
\* is_timed_out_and_update_if_timed_out(current_time) return the same; the
\* trackers they leave have the same timeout, and differ in the checkpoint
\* only when the result is false and the sample is strictly later than the
\* checkpoint: the first then holds the sample, the second the old checkpoint.
C16_SameResultEitherCheck ==
    op = "is_timed_out_default" =>
        LET other == is_timed_out_and_update_if_timed_out(pre, args[1])
        IN  /\ other.ret = ret
            /\ other.self.timeout = timeout
            /\ other.self.now # now =>
                 /\ ret = FALSE
                 /\ Flat(args[1]) > Flat(pre.now)
                 /\ now = args[1]
                 /\ other.self.now = pre.now

\* is_timed_out returned false and advanced where the other check stays.
C16_Witness ==
    /\ op = "is_timed_out_default"
    /\ ret = FALSE
    /\ now = args[1]
    /\ is_timed_out_and_update_if_timed_out(pre, args[1]).self.now = pre.now
    /\ now # pre.now

\* C19: adding the zero time value, on either side, gives the other
\* argument unchanged.
C19_AddZeroIsIdentity ==
    op = "add_timevals" =>
        /\ args[2] = Zero => ret = args[1]
        /\ args[1] = Zero => ret = args[2]

\* Zero was added on the left of a time value with both fields non-zero.
C19_Witness ==
    /\ op = "add_timevals"
    /\ args[1] = Zero
    /\ args[2].tv_sec # 0
    /\ args[2].tv_usec # 0
    /\ ret = args[2]

\* C13: from checkpoint c with configured timeout T, every
\* is_timed_out_and_update_if_timed_out call of a run whose samples are all
\* at or before c + T returns false and leaves the checkpoint at c; the
\* first call with a sample past c + T returns true and moves the
\* checkpoint to that sample.
C13_AnchorKeptUntilTimeout ==
    op = UpdateIfTimedOut =>
        /\ now = window.start
        /\ ret = (window.calls = 0)

\* After two calls that kept the checkpoint, a third with a sample past the
\* deadline returned true and moved it.
C13_Witness ==
    /\ op = UpdateIfTimedOut
    /\ window.before >= 2
    /\ ret = TRUE
    /\ now = args[1]
    /\ now # pre.now

\* C17: in a run of is_timed_out calls with samples in order and a fixed
\* configured timeout T, a call returns true exactly when its sample is more
\* than T after the sample of the call before, which is the checkpoint it
\* found; so while consecutive samples are at most T apart no call returns
\* true, however long ago the run began.
C17_DeadlineReanchoredEachCall ==
    (op = "is_timed_out_default" /\ poll.inrun) =>
        /\ ret = poll.fired
        /\ now = poll.prev
        /\ ret = (Flat(now) - Flat(pre.now) > Flat(timeout))

\* A call returned false more than T after the checkpoint its run began with.
C17_Witness ==
    /\ op = "is_timed_out_default"
    /\ poll.inrun
    /\ Flat(timeout) > 0
    /\ Flat(now) - Flat(poll.first) > Flat(timeout)
    /\ ret = FALSE

\* C18: a timeout check called again with the same arguments, right after
\* the first call, returns false and leaves the checkpoint as the first call
\* left it.
C18_SecondCallReportsNothing == repeat => (ret = FALSE /\ now = pre.now)

\* The first call had moved the checkpoint to the sample; the second
\* returned false.
C18_Witness ==
    /\ repeat
    /\ op = UpdateIfTimedOut
    /\ anchor = <<args[1]>>
    /\ now = args[1]
    /\ ret = FALSE

====
